---- MODULE Spec2Model ----
(***************************************************************************)
(* TravelTracker: the automated ingestion and scheduling subsystem.        *)
(*                                                                         *)
(* The state machines of this module:                                      *)
(*   Spec      the Trip/Flight store under concurrent materializations     *)
(*             (EmailScanner.create_trip_from_flight), manual add_flight   *)
(*             and delete_trip requests;                                   *)
(*   MatSpec   the same store with materializations only;                  *)
(*   VisSpec   materializations while the owner changes the preferences;   *)
(*   SchedSpec the four scheduler jobs, the scan_emails command and the    *)
(*             manual check-in sync;                                       *)
(*   ScanSpec  one firing of scan_all_email_accounts over the accounts;    *)
(*   CkptSpec  scan_for_flights of one account by the scheduled scan and   *)
(*             the scan_emails command, with the wall clock;               *)
(*   SyncSpec  sync_trip_checkins by the scheduled sync and a manual sync; *)
(*   ParseSpec parse_flight_email on one email, called at different times, *)
(*             and the materialization of the candidate it returns;        *)
(*   HangSpec  the jobs with their provider calls, under fair scheduling;  *)
(*   DiscSpec  disconnect_email_account against the scan log;              *)
(*   StatusSpec update_flight_statuses_job on one Flight;                  *)
(*   ShareSpec share_trip, view_shared_trip and the cleanup job;           *)
(*   RescanSpec repeated scans of one mailbox.                             *)
(***************************************************************************)
EXTENDS Integers, Sequences, FiniteSets, TLC

\* ------------------------------------------------------------------ bounds
\* Rows the trips table (and its id sequence) may hold in a run.
MaxTrips == 2
\* Rows the flights table (and its id sequence) may hold in a run.
MaxFlights == 2
\* Rows the trip_shares table (and its id sequence) may hold in a run.
MaxShares == 2
\* Scans of the same mailbox in a run.
MaxScans == 3
\* Firings of the email scan in a run.
MaxFirings == 1
\* The latest reading of the wall clock in a run.
MaxClock == 3
\* Messages a list call returns (the code asks for at most 20).
MaxMessages == 2
\* Values the checkins id sequence hands out in a run.
MaxCheckins == 2
\* Words in the content of an email.
MaxWords == 5
\* Requests to a provider in one run of a job.
MaxProviderCalls == 1
\* Rows of email_scan_logs in a run of the disconnect machine.
MaxLogEntries == 2

VARIABLES
    \* ---- the store (committed rows) and its id sequences
    trips, flights, nextTripId, nextFlightId,
    \* ---- one scanner per process: position inside create_trip_from_flight,
    \*      its candidate, its session's flushed-but-uncommitted Trip, and what
    \*      its latest finished call returned
    pc, cand, pending, last,
    \* ---- the scheduler: per job, the instances running, what became of its
    \*      latest trigger and of its latest finished run, and whether an
    \*      exception left the job function
    running, lastFire, lastRun, escaped,
    \* ---- the trip the scheduled check-in sync is inside sync_trip_checkins for
    syncCurrent,
    \* ---- the on-demand triggers: the scan_emails command and the manual
    \*      check-in sync requests, per trip
    cliScan, manualSync,
    \* ---- the email accounts (with their owner's settings) and the scan log
    acct, scanLog,
    \* ---- one firing of scan_all_email_accounts: its position, its number, the
    \*      accounts still to visit, those scan_for_flights was called for, and
    \*      per account the first list call's answer, the list calls and refresh
    \*      exchanges made, and whether the messages were fetched
    scanPc, firing, scanQueue, scanned, firstAnswer, listCalls, refreshCalls, fetched,
    \* ---- per account, what its scan_for_flights call of this firing did: the
    \*      messages it processed, the Trips it created, and whether it failed
    scanDid,
    \* ---- scan_for_flights of one account, per process: the wall clock, the
    \*      position inside the function, the messages of the list still to
    \*      process, the value assigned to last_scan and not yet committed, what
    \*      failed in the call, and whether the call committed last_scan
    clock, sfPc, sfLeft, sfStamp, sfFailure, sfWrote,
    \* ---- the checkins table and its id sequence, and per syncer inside
    \*      sync_trip_checkins: its position, its trip, the provider items still
    \*      to process, the rows added to its session, the ids it skipped, and
    \*      how its latest call ended
    checkins, nextCheckinId, syPc, syTrip, syItems, syPending, sySkipped, syResult,
    \* ---- one firing of sync_foursquare_checkins_job: the trips its loop has
    \*      still to visit, whether its session accepts statements, and how the
    \*      sync of each trip ended
    syQueue, sySession, jobResults,
    \* ---- one email of the mailbox (sender, content) and what the calls of
    \*      parse_flight_email made for it so far have returned
    email, returned,
    \* ---- per job: whether its running instance is inside a request to a
    \*      provider, and the requests the instance has made
    waiting, provCalls,
    \* ---- the ids that have a row in email_accounts, and those whose owner's
    \*      disconnect request has been served
    connected, discAsked,
    \* ---- the Flight the status job looks at, and what its latest run did
    stFlight, stResult,
    \* ---- the trip_shares table and its id sequence, the share links handed out
    \*      so far, and the latest request about shares with its answer
    shares, nextShareId, shareLinks, shareReq,
    \* ---- the messages of a mailbox, the position of the scan in it, the number
    \*      of the scan, and whether a materialization of one of them failed
    mailbox, rsPos, rsScan, rsFailed

storeVars == <<trips, flights, nextTripId, nextFlightId, pc, cand, pending, last>>

\* ------------------------------------------------------------ the store
\* The scanner processes: the scheduler's scan job and the scan_emails command.
Procs == {"sched", "cli"}

\* The owner of the account a process scans (self.email_account.user): both
\* processes scan the same mailbox.
AccountUser(p) == "u1"

\* Python's None.
None == "None"

Codes == {"AB12CD", "ZZ99YY"}

\* Candidates as _extract_flight_info returns them (the fields the store keeps);
\* the second has the first's confirmation number and differs in every other
\* field, the last two are different flights with no confirmation number.
Candidates ==
    { [flight_number |-> "UA1234", confirmation_number |-> "AB12CD",
       departure_airport |-> "JFK", arrival_airport |-> "LAX"],
      [flight_number |-> "AA77", confirmation_number |-> "AB12CD",
       departure_airport |-> "ORD", arrival_airport |-> "MIA"],
      [flight_number |-> "DL42", confirmation_number |-> "ZZ99YY",
       departure_airport |-> "SFO", arrival_airport |-> "SEA"],
      [flight_number |-> "UA1234", confirmation_number |-> None,
       departure_airport |-> "JFK", arrival_airport |-> "LAX"],
      [flight_number |-> "DL42", confirmation_number |-> None,
       departure_airport |-> "SFO", arrival_airport |-> "SEA"] }

NoCand == [flight_number |-> None, confirmation_number |-> None,
           departure_airport |-> None, arrival_airport |-> None]

\* A lookup on a column the candidate never matches.
ExistingFlightNever(fs, conf) == {}

\* Flight.query.filter_by(confirmation_number=...): the committed Flights whose
\* confirmation_number equals the candidate's (None matches NULL rows).
ExistingFlight(fs, conf) == { f \in fs : f.confirmation_number = conf }

\* Trip(...) as create_trip_from_flight builds it.
NewTrip(id, user, c, email_id) ==
    [ id |-> id, user_id |-> user,
      title |-> c.departure_airport \o " to " \o c.arrival_airport,
      destination |-> c.arrival_airport,
      visibility |-> "PRIVATE",
      confirmation_number |-> c.confirmation_number,
      auto_detected |-> TRUE, email_source |-> email_id ]

\* Flight(...) as create_trip_from_flight and add_flight build it.
NewFlight(id, trip_id, fn, conf, dep, arr) ==
    [ id |-> id, trip_id |-> trip_id, flight_number |-> fn,
      confirmation_number |-> conf,
      departure_airport |-> dep, arrival_airport |-> arr,
      status |-> "scheduled" ]

\* A flush that also commits: the Trip is in the store before the Flight is written.
CommittedByFlushAll(t) == {t}

\* db.session.flush() sends the INSERT inside the open transaction: it gives the
\* Trip its id and commits nothing.
CommittedByFlush(t) == {}

\* What the caller holds once a call is over: the candidate's confirmation
\* number and "created" (the trip was returned), "exists" (None after "Flight
\* already exists") or "error" (None after "Error creating trip from flight").
Returned(p, conf, outcome) ==
    [last EXCEPT ![p] = [confirmation_number |-> conf, outcome |-> outcome]]

\* Nothing returned: no call was made yet, or one is in progress.
NoCall == [confirmation_number |-> None, outcome |-> "none"]

\* A lookup whose hit overwrites the stored Flight with the candidate's fields
\* (last write wins).
LookupOverwrites(p, c) ==
    /\ pc[p] = "idle"
    /\ IF ExistingFlight(flights, c.confirmation_number) # {}
       THEN /\ last' = Returned(p, c.confirmation_number, "exists")
            /\ flights' = { IF f \in ExistingFlight(flights, c.confirmation_number)
                            THEN [f EXCEPT !.flight_number = c.flight_number,
                                           !.departure_airport = c.departure_airport,
                                           !.arrival_airport = c.arrival_airport]
                            ELSE f : f \in flights }
            /\ UNCHANGED <<pc, cand>>
       ELSE /\ pc' = [pc EXCEPT ![p] = "create"]
            /\ cand' = [cand EXCEPT ![p] = c]
            /\ last' = [last EXCEPT ![p] = NoCall]
            /\ UNCHANGED flights
    /\ UNCHANGED <<trips, nextTripId, nextFlightId, pending>>

\* create_trip_from_flight(flight_info, email_id), lines 157-169: the existence
\* lookup. A hit logs "Flight already exists" and returns None; a miss goes on
\* to the writes.
Lookup(p, c) ==
    /\ pc[p] = "idle"
    /\ IF ExistingFlight(flights, c.confirmation_number) # {}
       THEN /\ last' = Returned(p, c.confirmation_number, "exists")
            /\ UNCHANGED <<pc, cand>>
       ELSE /\ pc' = [pc EXCEPT ![p] = "create"]
            /\ cand' = [cand EXCEPT ![p] = c]
            /\ last' = [last EXCEPT ![p] = NoCall]
    /\ UNCHANGED <<trips, flights, nextTripId, nextFlightId, pending>>

\* lines 172-185: db.session.add(trip); db.session.flush().
FlushTrip(p) ==
    /\ pc[p] = "create"
    /\ nextTripId <= MaxTrips
    /\ LET t == NewTrip(nextTripId, AccountUser(p), cand[p], "msg")
       IN /\ pending' = [pending EXCEPT ![p] = {t}]
          /\ trips' = trips \cup CommittedByFlush(t)
    /\ nextTripId' = nextTripId + 1
    /\ pc' = [pc EXCEPT ![p] = "flushed"]
    /\ UNCHANGED <<flights, nextFlightId, cand, last>>

\* lines 188-204: db.session.add(flight); db.session.commit(): the Trip and the
\* Flight become visible together; returns the trip.
CommitFlight(p) ==
    /\ pc[p] = "flushed"
    /\ nextFlightId <= MaxFlights
    /\ LET t == CHOOSE x \in pending[p] : TRUE
           c == cand[p]
       IN /\ trips' = trips \cup {t}
          /\ flights' = flights \cup
                { NewFlight(nextFlightId, t.id, c.flight_number, c.confirmation_number,
                            c.departure_airport, c.arrival_airport) }
    /\ nextFlightId' = nextFlightId + 1
    /\ pending' = [pending EXCEPT ![p] = {}]
    /\ last' = Returned(p, cand[p].confirmation_number, "created")
    /\ pc' = [pc EXCEPT ![p] = "idle"]
    /\ cand' = [cand EXCEPT ![p] = NoCand]
    /\ UNCHANGED nextTripId

\* lines 206-209: a write raised (the flush or the commit was refused by the
\* database): db.session.rollback() discards the session's rows, None is returned.
WriteFails(p) ==
    /\ pc[p] \in {"create", "flushed"}
    /\ pending' = [pending EXCEPT ![p] = {}]
    /\ last' = Returned(p, cand[p].confirmation_number, "error")
    /\ pc' = [pc EXCEPT ![p] = "idle"]
    /\ cand' = [cand EXCEPT ![p] = NoCand]
    /\ UNCHANGED <<trips, flights, nextTripId, nextFlightId>>

\* app.add_flight (POST): a Flight with the form's confirmation number is added to
\* an existing trip and committed; no lookup is made.
AddFlight(t, c) ==
    /\ t \in trips
    /\ nextFlightId <= MaxFlights
    /\ flights' = flights \cup
          { NewFlight(nextFlightId, t.id, c.flight_number, c.confirmation_number,
                      c.departure_airport, c.arrival_airport) }
    /\ nextFlightId' = nextFlightId + 1
    /\ UNCHANGED <<trips, nextTripId, pc, cand, pending, last>>

\* app.delete_trip: the trip goes, and its flights with it (cascade).
DeleteTrip(t) ==
    /\ t \in trips
    /\ trips' = trips \ {t}
    /\ flights' = { f \in flights : f.trip_id # t.id }
    /\ UNCHANGED <<nextTripId, nextFlightId, pc, cand, pending, last>>

StoreInit ==
    /\ trips = {}
    /\ flights = {}
    /\ nextTripId = 1
    /\ nextFlightId = 1
    /\ pc = [p \in Procs |-> "idle"]
    /\ cand = [p \in Procs |-> NoCand]
    /\ pending = [p \in Procs |-> {}]
    /\ last = [p \in Procs |-> NoCall]


\* --------------------------------------------------------- the scheduler
schedVars == <<running, lastFire, lastRun, escaped, syncCurrent, cliScan, manualSync>>

\* The job ids main() registers.
Jobs == {"scan_emails", "update_flights", "cleanup_shares", "sync_foursquare"}

\* The trips the check-in sync job's query returns, in its order.
SyncTrips == {"t1", "t2"}

\* A scheduler that lets a second instance of a job start.
max_instances_two == 1 + 1

\* main() registers every job with add_job(...) and passes no max_instances: the
\* scheduler's default, one running instance per job id.
max_instances == 1

\* A job function whose try block does not cover its whole body.
CaughtOnlyInScan(j) == j = "scan_emails"

\* Every job function wraps its body in try: ... except Exception: logger.error(...).
CaughtAtBoundary(j) == TRUE

\* The trigger of job j fires: the job is submitted unless max_instances of it
\* are running, and then this run is skipped (dropped, not queued).
Fire(j) ==
    /\ IF running[j] < max_instances
       THEN /\ running' = [running EXCEPT ![j] = @ + 1]
            /\ lastFire' = [lastFire EXCEPT ![j] = "submitted"]
       ELSE /\ lastFire' = [lastFire EXCEPT ![j] = "skipped"]
            /\ UNCHANGED running
    /\ UNCHANGED <<lastRun, escaped, syncCurrent, cliScan, manualSync>>

\* sync_foursquare_checkins_job, lines 127-129: the loop enters
\* sync_trip_checkins for the next trip.
SyncNextTrip ==
    /\ running["sync_foursquare"] > 0
    /\ syncCurrent # "t2"
    /\ syncCurrent' = IF syncCurrent = None THEN "t1" ELSE "t2"
    /\ UNCHANGED <<running, lastFire, lastRun, escaped, cliScan, manualSync>>

\* The job function returns after its body ran to the end.
JobReturns(j) ==
    /\ running[j] > 0
    /\ ~waiting[j]
    /\ running' = [running EXCEPT ![j] = @ - 1]
    /\ lastRun' = [lastRun EXCEPT ![j] = "ok"]
    /\ syncCurrent' = IF j = "sync_foursquare" THEN None ELSE syncCurrent
    /\ UNCHANGED <<lastFire, escaped, cliScan, manualSync>>

\* A statement of the job's body raises: the except clause at the end of the job
\* function logs it and the function returns; uncaught, it leaves the function.
BodyRaises(j) ==
    /\ running[j] > 0
    /\ ~waiting[j]
    /\ running' = [running EXCEPT ![j] = @ - 1]
    /\ IF CaughtAtBoundary(j)
       THEN /\ lastRun' = [lastRun EXCEPT ![j] = "failed"]
            /\ UNCHANGED escaped
       ELSE /\ escaped' = [escaped EXCEPT ![j] = TRUE]
            /\ UNCHANGED lastRun
    /\ syncCurrent' = IF j = "sync_foursquare" THEN None ELSE syncCurrent
    /\ UNCHANGED <<lastFire, cliScan, manualSync>>

\* app.scan_emails (flask command): calls scan_all_email_accounts() directly.
CliScanStart ==
    /\ cliScan = "idle"
    /\ cliScan' = "running"
    /\ UNCHANGED <<running, lastFire, lastRun, escaped, syncCurrent, manualSync>>

CliScanEnd ==
    /\ cliScan = "running"
    /\ cliScan' = "idle"
    /\ UNCHANGED <<running, lastFire, lastRun, escaped, syncCurrent, manualSync>>

\* app.manual_sync_checkins (POST): calls sync_trip_checkins(trip) directly.
ManualSyncStart(t) ==
    /\ manualSync[t] = "idle"
    /\ manualSync' = [manualSync EXCEPT ![t] = "running"]
    /\ UNCHANGED <<running, lastFire, lastRun, escaped, syncCurrent, cliScan>>

ManualSyncEnd(t) ==
    /\ manualSync[t] = "running"
    /\ manualSync' = [manualSync EXCEPT ![t] = "idle"]
    /\ UNCHANGED <<running, lastFire, lastRun, escaped, syncCurrent, cliScan>>

SchedInit ==
    /\ running = [j \in Jobs |-> 0]
    /\ lastFire = [j \in Jobs |-> "none"]
    /\ lastRun = [j \in Jobs |-> "none"]
    /\ escaped = [j \in Jobs |-> FALSE]
    /\ syncCurrent = None
    /\ cliScan = "idle"
    /\ manualSync = [t \in SyncTrips |-> "idle"]


\* ------------------------------------------------------- the email scan
scanVars == <<acct, scanLog, scanPc, firing, scanQueue, scanned, firstAnswer,
              listCalls, refreshCalls, fetched, scanDid>>

\* A call of scan_for_flights that was not made.
NoScan == [emails_processed |-> 0, trips_created |-> 0, failed |-> FALSE]

\* EmailAccount ids, in the order the query returns them.
Accounts == {1, 2, 3}

\* models.TripVisibility.
TripVisibility == {"PRIVATE", "SHARED", "PUBLIC"}

\* An EmailAccount with what the scan reads of its owner: settings is "missing"
\* when account.user.user_settings is None; token is "expired" when the provider
\* answers 401 to access_token; refresh_token is "revoked" when the token
\* endpoint answers invalid_grant.
OkAccount ==
    [ is_active |-> TRUE, email_type |-> "gmail", settings |-> "present",
      email_integration_enabled |-> TRUE, auto_scan_emails |-> TRUE,
      token |-> "valid", refresh_token |-> "valid", last_scan |-> 0,
      default_trip_visibility |-> "PRIVATE" ]

AccountStates ==
    { OkAccount,
      [OkAccount EXCEPT !.email_type = "outlook", !.token = "expired"],
      [OkAccount EXCEPT !.token = "expired", !.refresh_token = "revoked"],
      [OkAccount EXCEPT !.settings = "missing"],
      [OkAccount EXCEPT !.email_integration_enabled = FALSE],
      [OkAccount EXCEPT !.auto_scan_emails = FALSE],
      [OkAccount EXCEPT !.is_active = FALSE],
      [OkAccount EXCEPT !.email_type = "imap"] }

\* The accounts of S in id order.
RECURSIVE InIdOrder(_)
InIdOrder(S) ==
    IF S = {} THEN <<>>
    ELSE LET m == CHOOSE x \in S : \A y \in S : x <= y
         IN <<m>> \o InIdOrder(S \ {m})

\* utils.refresh_oauth_token(email_account) on the token endpoint's answer:
\* without the owner's OAuth app credentials, or for another account type, False;
\* with an access_token in the answer the new token is stored and True returned;
\* else (invalid_grant, or an exception) False. is_active is never written. No
\* function under src/ calls it.
refresh_oauth_token(a, hasCredentials, answer) ==
    IF a.email_type \notin {"gmail", "outlook"} \/ ~hasCredentials
    THEN [account |-> a, result |-> FALSE]
    ELSE IF answer = "access_token"
         THEN [account |-> [a EXCEPT !.token = "valid"], result |-> TRUE]
         ELSE [account |-> a, result |-> FALSE]

\* EmailScanLog(...) as scan_all_email_accounts builds it; scan_time is the
\* firing it was written in.
ScanLogEntry(a, t, trips_created, emails_processed, errors) ==
    [ email_account_id |-> a, scan_time |-> t, trips_created |-> trips_created,
      emails_processed |-> emails_processed, errors |-> errors ]

\* Lines 363-367 read account.user.user_settings outside the try block: with no
\* settings row the AttributeError leaves scan_all_email_accounts.
SettingsReadAborts(a) == acct[a].settings = "missing"

\* A query without the is_active filter.
EveryAccount == Accounts

\* EmailAccount.query.filter_by(is_active=True).all() (line 357).
ActiveAccounts == { a \in Accounts : acct[a].is_active }

\* scan_all_email_accounts, lines 356-359: the active accounts are read.
FiringStart ==
    /\ scanPc = "idle"
    /\ firing < MaxFirings
    /\ firing' = firing + 1
    /\ scanPc' = "loop"
    /\ scanQueue' = InIdOrder(ActiveAccounts)
    /\ scanned' = {}
    /\ firstAnswer' = [a \in Accounts |-> "none"]
    /\ listCalls' = [a \in Accounts |-> 0]
    /\ refreshCalls' = [a \in Accounts |-> 0]
    /\ fetched' = [a \in Accounts |-> FALSE]
    /\ scanDid' = [a \in Accounts |-> NoScan]
    /\ UNCHANGED <<acct, scanLog>>

\* Lines 361-367: the owner's settings are read; the AttributeError of a missing
\* settings row ends the firing, a disabled integration or auto-scan skips the
\* account.
SkipAccount ==
    /\ scanPc = "loop"
    /\ scanQueue # <<>>
    /\ LET a == Head(scanQueue)
       IN /\ \/ SettingsReadAborts(a)
             \/ ~acct[a].email_integration_enabled
             \/ ~acct[a].auto_scan_emails
             \/ acct[a].email_type \notin {"gmail", "outlook"}
          /\ IF SettingsReadAborts(a)
             THEN scanPc' = "aborted" /\ UNCHANGED scanQueue
             ELSE scanQueue' = Tail(scanQueue) /\ UNCHANGED scanPc
    /\ UNCHANGED <<acct, scanLog, firing, scanned, firstAnswer, listCalls,
                   refreshCalls, fetched, scanDid>>

\* Lines 369-399 for one account: scan_for_flights (one list call; 401 or an
\* exception inside it returns 0, else the m messages are fetched and processed,
\* n trips are created in the store and last_scan is set), then the log entry is
\* written, with the call's return value and emails_processed=20. A failed log
\* write goes to the except clause, which writes an error entry; when that write
\* fails too the exception leaves scan_all_email_accounts.
ScanAccount(net, m, n, logWrite, handlerWrite) ==
    /\ scanPc = "loop"
    /\ scanQueue # <<>>
    /\ LET a == Head(scanQueue)
           answer == IF acct[a].token = "expired" THEN "401" ELSE net
           trips_created == IF answer = "200" THEN n ELSE 0
       IN /\ ~SettingsReadAborts(a)
          /\ acct[a].email_integration_enabled
          /\ acct[a].auto_scan_emails
          /\ acct[a].email_type \in {"gmail", "outlook"}
          /\ scanned' = scanned \cup {a}
          /\ listCalls' = [listCalls EXCEPT ![a] = @ + 1]
          /\ firstAnswer' = [firstAnswer EXCEPT ![a] = answer]
          /\ fetched' = [fetched EXCEPT ![a] = (answer = "200")]
          /\ scanDid' = [scanDid EXCEPT ![a] =
                IF answer = "200"
                THEN [emails_processed |-> m, trips_created |-> n, failed |-> FALSE]
                ELSE [emails_processed |-> 0, trips_created |-> 0, failed |-> TRUE]]
          /\ acct' = IF answer = "200"
                     THEN [acct EXCEPT ![a].last_scan = firing]
                     ELSE acct
          /\ IF logWrite = "ok"
             THEN /\ scanLog' = Append(scanLog, ScanLogEntry(a, firing, trips_created, 20, None))
                  /\ scanQueue' = Tail(scanQueue)
                  /\ UNCHANGED scanPc
             ELSE IF handlerWrite = "ok"
             THEN /\ scanLog' = Append(scanLog, ScanLogEntry(a, firing, 0, 0, "error"))
                  /\ scanQueue' = Tail(scanQueue)
                  /\ UNCHANGED scanPc
             ELSE /\ scanPc' = "aborted"
                  /\ UNCHANGED <<scanLog, scanQueue>>
    /\ UNCHANGED <<firing, refreshCalls>>

\* Lines 401-402: the loop is over, the total is returned.
FiringEnd ==
    /\ scanPc = "loop"
    /\ scanQueue = <<>>
    /\ scanPc' = "done"
    /\ UNCHANGED <<acct, scanLog, firing, scanQueue, scanned, firstAnswer,
                   listCalls, refreshCalls, fetched, scanDid>>

\* The caller (scan_emails_job or the scan_emails command) is back, and the
\* next firing may start.
FiringOver ==
    /\ scanPc \in {"done", "aborted"}
    /\ scanPc' = "idle"
    /\ UNCHANGED <<acct, scanLog, firing, scanQueue, scanned, firstAnswer,
                   listCalls, refreshCalls, fetched, scanDid>>

ScanIdle ==
    /\ scanLog = <<>>
    /\ scanPc = "idle"
    /\ firing = 0
    /\ scanQueue = <<>>
    /\ scanned = {}
    /\ firstAnswer = [a \in Accounts |-> "none"]
    /\ listCalls = [a \in Accounts |-> 0]
    /\ refreshCalls = [a \in Accounts |-> 0]
    /\ fetched = [a \in Accounts |-> FALSE]
    /\ scanDid = [a \in Accounts |-> NoScan]

\* The store and scheduler machines run with the accounts fixed.
ScanFixed == acct = [a \in Accounts |-> OkAccount] /\ ScanIdle

\* ------------------------------------------- scan_for_flights, one account
ckptVars == <<clock, sfPc, sfLeft, sfStamp, sfFailure, sfWrote>>

\* The same without the clock.
ckptRun == <<sfPc, sfLeft, sfStamp, sfFailure, sfWrote>>

\* The account both processes scan.
CkptAccount == 1

\* GmailScanner/OutlookScanner.scan_for_flights, the list call (lines 229-236,
\* 313-320): 401 returns 0; an exception (the request, or .json()) is caught at
\* the end of the function, which returns 0; else the n messages are iterated.
ListMessages(p, answer, n) ==
    /\ sfPc[p] = "idle"
    /\ IF answer = "200"
       THEN /\ sfPc' = [sfPc EXCEPT ![p] = "listed"]
            /\ sfLeft' = [sfLeft EXCEPT ![p] = n]
       ELSE UNCHANGED <<sfPc, sfLeft>>
    /\ sfFailure' = [sfFailure EXCEPT ![p] = IF answer = "raised" THEN "list" ELSE "none"]
    /\ sfWrote' = [sfWrote EXCEPT ![p] = FALSE]
    /\ UNCHANGED <<clock, sfStamp, acct>>

\* One turn of the message loop (lines 241-283, 325-339) that reaches its end:
\* parse_flight_email and create_trip_from_flight catch their own exceptions and
\* return None (contained), and the loop goes on.
MessageDone(p, contained) ==
    /\ sfPc[p] = "listed"
    /\ sfLeft[p] > 0
    /\ sfLeft' = [sfLeft EXCEPT ![p] = @ - 1]
    /\ sfFailure' = [sfFailure EXCEPT ![p] = IF contained THEN "contained" ELSE @]
    /\ UNCHANGED <<clock, sfPc, sfStamp, sfWrote, acct>>

\* One turn of the message loop raises outside those two calls (the request for
\* the message at line 246, msg_response.json(), message['id'], the base64
\* decoding): the except clause at lines 291-293 / 347-349 returns 0, and the
\* lines that set last_scan are not reached.
MessageRaises(p) ==
    /\ sfPc[p] = "listed"
    /\ sfLeft[p] > 0
    /\ sfPc' = [sfPc EXCEPT ![p] = "idle"]
    /\ sfLeft' = [sfLeft EXCEPT ![p] = 0]
    /\ sfFailure' = [sfFailure EXCEPT ![p] = "escaped"]
    /\ UNCHANGED <<clock, sfStamp, sfWrote, acct>>

\* Line 286 / 342, after the loop: self.email_account.last_scan = datetime.utcnow().
StampLastScan(p) ==
    /\ sfPc[p] = "listed"
    /\ sfLeft[p] = 0
    /\ sfStamp' = [sfStamp EXCEPT ![p] = clock]
    /\ sfPc' = [sfPc EXCEPT ![p] = "stamped"]
    /\ UNCHANGED <<clock, sfLeft, sfFailure, sfWrote, acct>>

\* Line 287 / 343: db.session.commit() writes the assigned value over the stored
\* one; a refused commit is caught at the end of the function, which returns 0.
CommitLastScan(p, ok) ==
    /\ sfPc[p] = "stamped"
    /\ IF ok
       THEN /\ acct' = [acct EXCEPT ![CkptAccount].last_scan = sfStamp[p]]
            /\ sfWrote' = [sfWrote EXCEPT ![p] = TRUE]
            /\ UNCHANGED sfFailure
       ELSE /\ sfFailure' = [sfFailure EXCEPT ![p] = "commit"]
            /\ UNCHANGED <<acct, sfWrote>>
    /\ sfPc' = [sfPc EXCEPT ![p] = "idle"]
    /\ sfStamp' = [sfStamp EXCEPT ![p] = 0]
    /\ UNCHANGED <<clock, sfLeft>>

\* Time passes on the wall clock datetime.utcnow() reads.
Tick ==
    /\ clock < MaxClock
    /\ clock' = clock + 1
    /\ UNCHANGED <<sfPc, sfLeft, sfStamp, sfFailure, sfWrote, acct>>

CkptInit ==
    /\ clock = 1
    /\ sfPc = [p \in Procs |-> "idle"]
    /\ sfLeft = [p \in Procs |-> 0]
    /\ sfStamp = [p \in Procs |-> 0]
    /\ sfFailure = [p \in Procs |-> "none"]
    /\ sfWrote = [p \in Procs |-> FALSE]


\* --------------------------------------------------- sync_trip_checkins
syncVars == <<checkins, nextCheckinId, syPc, syTrip, syItems, syPending, sySkipped, syResult,
              syQueue, sySession, jobResults>>

\* The same without the job's loop.
syncRun == <<checkins, nextCheckinId, syPc, syTrip, syItems, syPending, sySkipped, syResult>>

\* The callers of sync_trip_checkins: sync_foursquare_checkins_job and
\* app.manual_sync_checkins.
Syncers == {"job", "manual"}

\* Provider-native check-in ids: the check-ins of the trips' owner.
CheckinIds == {"c1", "c2", "c3"}

\* The createdAt the provider holds for a check-in, in seconds since the epoch.
createdAt(i) == CASE i = "c1" -> 2 [] i = "c2" -> 3 [] i = "c3" -> 5

\* Trip.start_date and Trip.end_date, naive datetimes: the first check-in lies in
\* the first trip only, the second in both, the third in none.
TripDates(t) ==
    IF t = "t1" THEN [start_date |-> 1, end_date |-> 2]
    ELSE [start_date |-> 2, end_date |-> 3]

\* Trip.user_id.
TripUser(t) == "u1"

\* The offset of the server's local time from UTC.
UtcOffset == 1

\* datetime.timestamp() of a naive datetime (read as local time).
timestamp(d) == d + UtcOffset

\* datetime.fromtimestamp(s): the naive local time.
fromtimestamp(s) == s - UtcOffset

\* A window that runs a week past the trip's end.
CheckinWindowWide(t) ==
    [ afterTimestamp |-> timestamp(TripDates(t).start_date),
      beforeTimestamp |-> timestamp(TripDates(t).end_date + 7) ]

\* The params of the request (utils.py lines 472-478) sync_trip_checkins makes for
\* trip.start_date and trip.end_date (lines 512-516).
CheckinWindow(t) ==
    [ afterTimestamp |-> timestamp(TripDates(t).start_date),
      beforeTimestamp |-> timestamp(TripDates(t).end_date) ]

\* What fetch_foursquare_checkins may return: at most one item per id among the
\* check-ins the provider holds between the two timestamps, with the shout it
\* holds at that time; nothing on an error.
fetch_foursquare_checkins(params) ==
    UNION { [S -> {"v1", "v2"}] :
              S \in SUBSET { i \in CheckinIds :
                               /\ params.afterTimestamp <= createdAt(i)
                               /\ createdAt(i) <= params.beforeTimestamp } }

\* CheckIn(...) as sync_trip_checkins builds it (the fields that tell rows apart).
NewCheckIn(id, trip, fsq, shout) ==
    [ id |-> id, trip_id |-> trip, user_id |-> TripUser(trip),
      foursquare_checkin_id |-> fsq,
      checkin_time |-> fromtimestamp(createdAt(fsq)), shout |-> shout ]

\* A checkins table without the unique index.
UniqueViolationNever(rows, stored) == FALSE

\* models.CheckIn.foursquare_checkin_id is unique=True: the database refuses a
\* transaction that inserts a row whose id another row already holds.
UniqueViolation(rows, stored) ==
    \E r \in rows : \E c \in stored : c.foursquare_checkin_id = r.foursquare_checkin_id

\* The job's loop runs in one application context, so on one db.session. A
\* commit that raised inside its flush leaves the session's transaction
\* inactive until db.session.rollback() is called, and every statement issued
\* before that raises; neither sync_trip_checkins nor the except clause of the
\* loop (scheduler.py lines 135-136) calls rollback.
SessionAccepts(s) == s = "active"

\* sync_foursquare_checkins_job, lines 115-127: the query returns the trips and
\* the loop starts.
SyncJobStart ==
    /\ syPc["job"] = "idle"
    /\ syQueue = <<>>
    /\ syQueue' = <<"t1", "t2">>
    /\ sySession' = "active"
    /\ jobResults' = [t \in SyncTrips |-> "none"]
    /\ UNCHANGED syncRun

\* Lines 128-136 for a trip, on a session that accepts no statement:
\* sync_trip_checkins raises at its first query, the except clause logs it and
\* the loop goes on; nothing is fetched or stored for the trip.
SyncRefused ==
    /\ syPc["job"] = "idle"
    /\ syQueue # <<>>
    /\ ~SessionAccepts(sySession)
    /\ jobResults' = [jobResults EXCEPT ![Head(syQueue)] = "refused"]
    /\ syQueue' = Tail(syQueue)
    /\ syResult' = [syResult EXCEPT !["job"] = "raised"]
    /\ UNCHANGED <<checkins, nextCheckinId, syPc, syTrip, syItems, syPending, sySkipped,
                   sySession>>

\* sync_trip_checkins, lines 506-517: the settings are read and the provider is
\* asked for the check-ins of the trip's dates. A manual sync is a request of
\* its own, with a session of its own.
SyncFetch(p, t, resp) ==
    /\ syPc[p] = "idle"
    /\ IF p = "job"
       THEN /\ syQueue # <<>>
            /\ t = Head(syQueue)
            /\ SessionAccepts(sySession)
            /\ syQueue' = Tail(syQueue)
       ELSE UNCHANGED syQueue
    /\ UNCHANGED <<sySession, jobResults>>
    /\ syPc' = [syPc EXCEPT ![p] = "loop"]
    /\ syTrip' = [syTrip EXCEPT ![p] = t]
    /\ syItems' = [syItems EXCEPT ![p] = resp]
    /\ syPending' = [syPending EXCEPT ![p] = {}]
    /\ sySkipped' = [sySkipped EXCEPT ![p] = {}]
    /\ syResult' = [syResult EXCEPT ![p] = "none"]
    /\ UNCHANGED <<checkins, nextCheckinId>>

\* Lines 521-560, one item: the lookup by foursquare_checkin_id sees the committed
\* rows and the session's own; a hit skips the item, a miss adds a CheckIn to the
\* session.
SyncItem(p) ==
    /\ syPc[p] = "loop"
    /\ DOMAIN syItems[p] # {}
    /\ LET i == CHOOSE x \in DOMAIN syItems[p] : TRUE
           existing == { c \in checkins \cup syPending[p] : c.foursquare_checkin_id = i }
           rest == [x \in DOMAIN syItems[p] \ {i} |-> syItems[p][x]]
       IN /\ syItems' = [syItems EXCEPT ![p] = rest]
          /\ IF existing # {}
             THEN /\ sySkipped' = [sySkipped EXCEPT ![p] = @ \cup {i}]
                  /\ UNCHANGED <<syPending, nextCheckinId>>
             ELSE /\ nextCheckinId <= MaxCheckins
                  /\ syPending' = [syPending EXCEPT ![p] =
                        @ \cup {NewCheckIn(nextCheckinId, syTrip[p], i, syItems[p][i])}]
                  /\ nextCheckinId' = nextCheckinId + 1
                  /\ UNCHANGED sySkipped
    /\ UNCHANGED <<checkins, syPc, syTrip, syResult, syQueue, sySession, jobResults>>

\* Lines 562-566: with rows added, db.session.commit(); the commit of a row whose
\* foursquare_checkin_id is already stored raises IntegrityError and stores none
\* of the session's rows.
SyncCommit(p) ==
    /\ syPc[p] = "loop"
    /\ DOMAIN syItems[p] = {}
    /\ IF syPending[p] # {} /\ UniqueViolation(syPending[p], checkins)
       THEN /\ syResult' = [syResult EXCEPT ![p] = "raised"]
            /\ UNCHANGED checkins
       ELSE /\ syResult' = [syResult EXCEPT ![p] = "returned"]
            /\ checkins' = checkins \cup syPending[p]
    /\ IF p = "job"
       THEN /\ jobResults' = [jobResults EXCEPT ![syTrip[p]] = syResult'[p]]
            /\ sySession' = IF syResult'[p] = "raised" THEN "inactive" ELSE sySession
       ELSE UNCHANGED <<sySession, jobResults>>
    /\ UNCHANGED syQueue
    /\ syPending' = [syPending EXCEPT ![p] = {}]
    /\ syTrip' = [syTrip EXCEPT ![p] = None]
    /\ syPc' = [syPc EXCEPT ![p] = "idle"]
    /\ UNCHANGED <<nextCheckinId, syItems, sySkipped>>

SyncInit ==
    /\ checkins = {}
    /\ nextCheckinId = 1
    /\ syPc = [p \in Syncers |-> "idle"]
    /\ syTrip = [p \in Syncers |-> None]
    /\ syItems = [p \in Syncers |-> <<>>]
    /\ syPending = [p \in Syncers |-> {}]
    /\ sySkipped = [p \in Syncers |-> {}]
    /\ syResult = [p \in Syncers |-> "none"]
    /\ syQueue = <<>>
    /\ sySession = "active"
    /\ jobResults = [t \in SyncTrips |-> "none"]

\* --------------------------------------------------- parse_flight_email
parseVars == <<email, returned>>

Upper == {"A", "B", "C", "D", "E", "F", "G", "H", "I", "J", "K", "L", "M",
          "N", "O", "P", "Q", "R", "S", "T", "U", "V", "W", "X", "Y", "Z"}

Digit == {"0", "1", "2", "3", "4", "5", "6", "7", "8", "9"}

UpperCase == <<"A", "B", "C", "D", "E", "F", "G", "H", "I", "J", "K", "L", "M",
               "N", "O", "P", "Q", "R", "S", "T", "U", "V", "W", "X", "Y", "Z">>

LowerCase == <<"a", "b", "c", "d", "e", "f", "g", "h", "i", "j", "k", "l", "m",
               "n", "o", "p", "q", "r", "s", "t", "u", "v", "w", "x", "y", "z">>

\* A word of the content (a maximal run of word characters, which is what \b
\* delimits) with the text between it and the next word.
Word(chars, sep) == [chars |-> chars, sep |-> sep]

Vocabulary ==
    { Word(<<"U", "A", "1", "2", "3", "4">>, " "),
      Word(<<"C", "o", "n", "f", "i", "r", "m", "a", "t", "i", "o", "n">>, ": "),
      Word(<<"A", "B", "1", "2", "C", "D">>, " "),
      Word(<<"J", "F", "K">>, " "),
      Word(<<"L", "A", "X">>, " "),
      Word(<<"D", "L", "4", "2">>, " ") }

\* The contents of at most n distinct words.
RECURSIVE Texts(_)
Texts(n) ==
    IF n = 0 THEN {<<>>}
    ELSE LET shorter == Texts(n - 1)
             longest == { t \in shorter : Len(t) = n - 1 }
         IN shorter \cup
            { Append(x[1], x[2]) :
                x \in { y \in longest \X Vocabulary :
                          \A i \in 1..Len(y[1]) : y[1][i] # y[2] } }

\* The domain of the From address.
Senders == {"united.com", "delta.com", "example.org"}

\* An email: its sender, the words of its plain-text content, and whether the
\* content also holds a date and time in one of the formats of _extract_datetime.
Emails ==
    [ from_email : Senders, words : Texts(MaxWords), dated : BOOLEAN ]

\* The characters of a word as one string.
RECURSIVE Join(_)
Join(chars) == IF chars = <<>> THEN "" ELSE Head(chars) \o Join(Tail(chars))

\* str.lower() on a capital.
ToLower == [ c \in Upper |-> LowerCase[CHOOSE k \in 1..26 : UpperCase[k] = c] ]

\* str.lower() on a word.
Lowered(chars) ==
    Join([ i \in 1..Len(chars) |-> IF chars[i] \in Upper THEN ToLower[chars[i]] ELSE chars[i] ])

AllIn(chars, S) == \A i \in 1..Len(chars) : chars[i] \in S

\* re.search(r'k1.*k2...', text_to_search) on the lowered words of the content:
\* the keywords appear as words in that order.
RECURSIVE InOrder(_, _)
InOrder(words, keys) ==
    IF keys = <<>> THEN TRUE
    ELSE \E i \in 1..Len(words) :
            /\ words[i] = Head(keys)
            /\ InOrder(SubSeq(words, i + 1, Len(words)), Tail(keys))

\* AIRLINE_PATTERNS (lines 19-40): whether one of the airline's patterns is found
\* in "from subject content", lowered.
PatternFound(airline, from_email, words) ==
    CASE airline = "united" ->
           \/ from_email = "united.com"
           \/ InOrder(words, <<"confirmation", "united">>)
           \/ InOrder(words, <<"flight", "confirmation">>)
      [] airline = "american" ->
           \/ from_email \in {"aa.com", "americanairlines.com"}
           \/ InOrder(words, <<"confirmation", "american", "airlines">>)
      [] airline = "delta" ->
           \/ from_email = "delta.com"
           \/ InOrder(words, <<"confirmation", "delta">>)
           \/ InOrder(words, <<"flight", "confirmation", "delta">>)
      [] airline = "southwest" ->
           \/ from_email = "southwest.com"
           \/ InOrder(words, <<"confirmation", "southwest">>)
           \/ InOrder(words, <<"flight", "confirmation", "southwest">>)

\* The keys of AIRLINE_PATTERNS in the order the dict holds them.
Airlines == <<"united", "american", "delta", "southwest">>

\* _detect_airline (lines 83-92): the first airline with a pattern found, or None.
DetectAirline(from_email, words) ==
    LET lowered == [ i \in 1..Len(words) |-> Lowered(words[i].chars) ]
        found == { k \in 1..Len(Airlines) : PatternFound(Airlines[k], from_email, lowered) }
    IN IF found = {} THEN None
       ELSE Airlines[CHOOSE k \in found : \A m \in found : k <= m]

\* airline.upper() (line 97).
AirlineUpper(airline) ==
    CASE airline = "united" -> "UNITED"
      [] airline = "american" -> "AMERICAN"
      [] airline = "delta" -> "DELTA"
      [] airline = "southwest" -> "SOUTHWEST"

\* FLIGHT_NUMBER_PATTERN \b([A-Z]{2})\s*(\d{1,4})\b matched at word i: the word is
\* two capitals and one to four digits, or it is two capitals, whitespace follows
\* and the next word is one to four digits. group(1) + group(2), or None.
FlightNumberAt(words, i) ==
    LET w == words[i].chars
    IN IF /\ Len(w) \in 3..6
          /\ AllIn(SubSeq(w, 1, 2), Upper)
          /\ AllIn(SubSeq(w, 3, Len(w)), Digit)
       THEN Join(w)
       ELSE IF /\ Len(w) = 2
               /\ AllIn(w, Upper)
               /\ words[i].sep = " "
               /\ i < Len(words)
               /\ Len(words[i + 1].chars) \in 1..4
               /\ AllIn(words[i + 1].chars, Digit)
            THEN Join(w) \o Join(words[i + 1].chars)
            ELSE None

\* The first element of a set of positions, or 0.
First(S) == IF S = {} THEN 0 ELSE CHOOSE i \in S : \A j \in S : i <= j

\* re.search(FLIGHT_NUMBER_PATTERN, content) (lines 107-109): the leftmost match.
FlightNumber(words) ==
    LET i == First({ k \in 1..Len(words) : FlightNumberAt(words, k) # None })
    IN IF i = 0 THEN None ELSE FlightNumberAt(words, i)

\* re.findall(CONFIRMATION_PATTERN, content)[0] (lines 112-115): the first word
\* of six characters, each a capital or a digit.
ConfirmationNumber(words) ==
    LET i == First({ k \in 1..Len(words) :
                       Len(words[k].chars) = 6 /\ AllIn(words[k].chars, Upper \cup Digit) })
    IN IF i = 0 THEN None ELSE Join(words[i].chars)

IsAirportMatch(w) == Len(w.chars) = 3 /\ AllIn(w.chars, Upper)

IsValidAirport(w) == Join(w.chars) \notin {"THE", "AND", "FOR", "NOT", "ARE"}

\* re.findall(AIRPORT_PATTERN, content) and the filter of lines 118-124: with two
\* matches or more, the first two that are no common word; else none.
Airports(words) ==
    LET airport_matches == SelectSeq(words, IsAirportMatch)
        valid_airports == SelectSeq(airport_matches, IsValidAirport)
    IN IF Len(airport_matches) >= 2 /\ Len(valid_airports) >= 2
       THEN <<Join(valid_airports[1].chars), Join(valid_airports[2].chars)>>
       ELSE <<None, None>>

\* The placeholder of line 151, in days.
PlaceholderDays == 30

\* _extract_datetime (lines 136-155): when one of the date patterns is found,
\* datetime.now() + timedelta(days=30); else None.
ExtractDatetime(dated, now) == IF dated THEN now + PlaceholderDays ELSE 0

\* A validation that asks for the flight number only.
HasFlightNumberOnly(info) == info.flight_number # None

\* Line 131: the minimum a candidate must have.
HasRequired(info) ==
    /\ info.flight_number # None
    /\ info.departure_airport # None
    /\ info.arrival_airport # None

\* What parse_flight_email returns when it returns None. Times are numbers, 0
\* standing for None.
NoFlightInfo ==
    [ airline |-> None, flight_number |-> None, confirmation_number |-> None,
      departure_airport |-> None, arrival_airport |-> None,
      departure_time |-> 0, arrival_time |-> 0 ]

\* _extract_flight_info (lines 94-134) at time now.
ExtractFlightInfo(words, dated, airline, now) ==
    LET airports == Airports(words)
        info == [ airline |-> AirlineUpper(airline),
                  flight_number |-> FlightNumber(words),
                  confirmation_number |-> ConfirmationNumber(words),
                  departure_airport |-> airports[1],
                  arrival_airport |-> airports[2],
                  departure_time |-> ExtractDatetime(dated, now),
                  arrival_time |-> ExtractDatetime(dated, now) ]
    IN IF HasRequired(info) THEN info ELSE NoFlightInfo

\* parse_flight_email (lines 59-81) on a plain-text email at time now.
parse_flight_email(e, now) ==
    LET airline == DetectAirline(e.from_email, e.words)
    IN IF airline = None THEN NoFlightInfo
       ELSE ExtractFlightInfo(e.words, e.dated, airline, now)

\* The fields of flight_info that create_trip_from_flight stores.
StoreFields(info) ==
    [ flight_number |-> info.flight_number,
      confirmation_number |-> info.confirmation_number,
      departure_airport |-> info.departure_airport,
      arrival_airport |-> info.arrival_airport ]

\* The scan reaches the email at time t and calls parse_flight_email (line 276 /
\* 332); every scan of the mailbox meets the email again.
ParseFlightEmail(t) ==
    /\ pc["sched"] = "idle"
    /\ t >= clock
    /\ clock' = t
    /\ returned' = returned \cup {parse_flight_email(email, t)}
    /\ UNCHANGED email

\* Lines 278-279: the candidate goes to create_trip_from_flight.
CreateFromParsed(p, info) ==
    /\ info \in returned
    /\ info # NoFlightInfo
    /\ last[p] = NoCall
    /\ Lookup(p, StoreFields(info))

\* The email the other machines run with.
ParseFixed ==
    /\ email = [from_email |-> "example.org", words |-> <<>>, dated |-> FALSE]
    /\ returned = {}

ParseInit ==
    /\ email \in Emails
    /\ returned = {}

\* ------------------------------------------------ the jobs' provider calls
hangVars == <<waiting, provCalls>>

\* The jobs that call a provider: the mail providers (scan_for_flights), the
\* airline APIs (update_flight_status) and Foursquare (fetch_foursquare_checkins).
\* cleanup_expired_shares_job makes no request.
ProviderJobs == {"scan_emails", "update_flights", "sync_foursquare"}

\* The timeout argument of the job's requests, in seconds, 0 for none:
\* requests.get(list_url, headers=headers) and requests.get(msg_url,
\* headers=headers) in the scanners pass none; airline_apis and
\* fetch_foursquare_checkins pass timeout=10.
request_timeout(j) == IF j = "scan_emails" THEN 0 ELSE 10

\* The running instance of job j sends a request and waits for the answer.
CallProvider(j) ==
    /\ j \in ProviderJobs
    /\ running[j] > 0
    /\ ~waiting[j]
    /\ provCalls[j] < MaxProviderCalls
    /\ waiting' = [waiting EXCEPT ![j] = TRUE]
    /\ provCalls' = [provCalls EXCEPT ![j] = @ + 1]

\* The provider answers.
ProviderAnswers(j) ==
    /\ waiting[j]
    /\ waiting' = [waiting EXCEPT ![j] = FALSE]
    /\ UNCHANGED provCalls

\* The request's timeout expires: requests raises, the caller's except clause
\* logs it and the job goes on.
RequestTimesOut(j) ==
    /\ waiting[j]
    /\ request_timeout(j) > 0
    /\ waiting' = [waiting EXCEPT ![j] = FALSE]
    /\ UNCHANGED provCalls

\* The job function is left, by its return.
JobEnds(j) ==
    /\ JobReturns(j)
    /\ provCalls' = [provCalls EXCEPT ![j] = 0]
    /\ UNCHANGED waiting

HangInit ==
    /\ waiting = [j \in Jobs |-> FALSE]
    /\ provCalls = [j \in Jobs |-> 0]

\* ------------------------------------------- disconnect_email_account
discVars == <<connected, discAsked>>

Users == {"u1", "u2"}

\* EmailAccount.user_id: the first account is u1's (the one the processes scan),
\* the others are u2's.
AccountOwner(a) == IF a = CkptAccount THEN "u1" ELSE "u2"

\* email_scan_logs.email_account_id is a ForeignKey('email_accounts.id') with no
\* ondelete and no relationship: a database that enforces foreign keys (the
\* configured PostgreSQL) refuses to delete an account that log rows reference.
ForeignKeyViolation(a, fk) ==
    fk /\ \E i \in 1..Len(scanLog) : scanLog[i].email_account_id = a

\* scan_all_email_accounts, lines 383-389, for a connected account: the scan's
\* log entry is added and committed.
LogScan(a) ==
    /\ a \in connected
    /\ Len(scanLog) < MaxLogEntries
    /\ scanLog' = Append(scanLog, ScanLogEntry(a, 0, 0, 20, None))
    /\ UNCHANGED <<connected, discAsked>>

\* app.disconnect_email_account(account_id) by user u, on a database that
\* enforces foreign keys (fk) or does not: 404 without the row; "Permission
\* denied" for another user's account; else db.session.delete(account) and
\* commit, which raises IntegrityError on a foreign key violation and leaves the
\* row.
Disconnect(a, u, fk) ==
    /\ a \in connected
    /\ IF AccountOwner(a) # u
       THEN UNCHANGED <<connected, discAsked>>
       ELSE /\ discAsked' = discAsked \cup {a}
            /\ connected' = IF ForeignKeyViolation(a, fk) THEN connected
                            ELSE connected \ {a}
    /\ UNCHANGED scanLog

DiscInit ==
    /\ connected = Accounts
    /\ discAsked = {}

\* ------------------------------------------- update_flight_statuses_job
statusVars == <<stFlight, stResult>>

\* timedelta(hours=48), in days (the unit of the clock in this machine).
upcoming_window == 2

\* The columns of models.Flight that the job reads or could write. The model
\* declares no attribute named gate or terminal.
OkFlight ==
    [ airline |-> "UNITED", flight_number |-> "UA1234", departure_time |-> 2,
      status |-> "scheduled", departure_gate |-> None, departure_terminal |-> None,
      last_api_update |-> 0 ]

\* No status: get_flight_status returned None (an answer other than 200, or an
\* exception), or the provider was not asked.
NoStatus == [status |-> None, departure_gate |-> None, departure_terminal |-> None]

\* The dict _parse_flight_status builds from a 200 answer (the keys the caller
\* reads); the gate and the terminal may be missing from the answer.
StatusAnswers ==
    [ status : {"delayed", "cancelled"}, departure_gate : {None, "B7"},
      departure_terminal : {None, "2"} ]

\* What reading an attribute the object does not have raises.
AttributeError == "AttributeError"

\* flight.<name> on a Flight object.
getattr(f, name) == IF name \in DOMAIN f THEN f[name] ELSE AttributeError

\* AirlineAPIManager.update_flight_status(flight), lines 360-393. Without an API
\* for the airline, or without a status, False. Else flight.status is assigned,
\* then the arguments of status.get('departure_gate', flight.gate) are
\* evaluated: reading an attribute the Flight does not have raises, the except
\* clause logs it and returns False, and the assignment to status is never
\* committed. Were the attributes there, gate and terminal would be assigned as
\* attributes of the object, which no column stores; status and last_api_update
\* are columns, and the commit stores them (True), or raises (False).
update_flight_status(f, configured, answer, now, commitOk) ==
    IF ~configured \/ answer = NoStatus
    THEN [flight |-> f, result |-> FALSE]
    ELSE IF getattr(f, "gate") = AttributeError \/ getattr(f, "terminal") = AttributeError
    THEN [flight |-> f, result |-> FALSE]
    ELSE IF ~commitOk
    THEN [flight |-> f, result |-> FALSE]
    ELSE [flight |-> [f EXCEPT !.status = answer.status, !.last_api_update = now],
          result |-> TRUE]

\* The filter of the job's query (scheduler.py lines 57-61).
Upcoming(f, now) ==
    /\ f.departure_time >= now
    /\ f.departure_time <= now + upcoming_window
    /\ f.status # "cancelled"

\* A run of the job that found nothing to do.
NoRun == [selected |-> FALSE, answer |-> NoStatus, returned |-> FALSE, updated_count |-> 0]

\* update_flight_statuses_job, lines 51-73, on the one Flight: the query, the
\* call of update_flight_status for a Flight it returns, the count.
UpdateFlightStatusesJob(configured, answer, commitOk) ==
    IF Upcoming(stFlight, clock)
    THEN LET asked == IF configured THEN answer ELSE NoStatus
             u == update_flight_status(stFlight, configured, asked, clock, commitOk)
         IN /\ stFlight' = u.flight
            /\ stResult' = [ selected |-> TRUE, answer |-> asked, returned |-> u.result,
                             updated_count |-> IF u.result THEN 1 ELSE 0 ]
    ELSE /\ stResult' = NoRun
         /\ UNCHANGED stFlight

\* A Flight of any status and departure time, of an airline with an API class or
\* of another one.
StatusInit ==
    /\ stFlight \in { [OkFlight EXCEPT !.airline = a, !.status = s, !.departure_time = d] :
                         a \in {"UNITED", "JETBLUE"},
                         s \in {"scheduled", "delayed", "cancelled"},
                         d \in 1..(MaxClock + upcoming_window + 1) }
    /\ stResult = NoRun

\* The Flight the other machines run with.
StatusFixed ==
    /\ stFlight = OkFlight
    /\ stResult = NoRun

\* ----------------------------------------------------------- trip shares
shareVars == <<shares, nextShareId, shareLinks, shareReq>>

\* The trip of user u1 the requests are about.
SharedTrip == "t1"

\* The logged-in users: the owner of the trip, another user, an administrator.
Members == {"u1", "u2", "a1"}

\* User.is_admin().
is_admin(u) == u = "a1"

\* The values of the expires_days form field: left empty, or a number of days.
ExpiresDays == {"", "0", "1"}

\* int(expires_days) on the values of the field.
int(s) == CASE s = "0" -> 0 [] s = "1" -> 1

\* utils.can_edit_trip(user, trip) on the trip_shares rows: the owner, an
\* administrator, or a user the trip is shared with for editing.
can_edit_trip(u, t, rows) ==
    \/ u = TripUser(t)
    \/ is_admin(u)
    \/ \E s \in rows : s.trip_id = t /\ s.shared_with_user_id = u /\ s.can_edit

\* A row of trip_shares; 0 stands for a token or an expires_at of None.
NewTripShare(id, t, friend, token, canEdit, exp) ==
    [ id |-> id, trip_id |-> t, shared_with_user_id |-> friend, share_token |-> token,
      can_edit |-> canEdit, expires_at |-> exp ]

\* No request made so far.
NoRequest == [kind |-> "none", user |-> None, token |-> 0, status |-> 0, at |-> 0]

\* No TripShare row, no link handed out.
ShareInit ==
    /\ shares = {}
    /\ nextShareId = 1
    /\ shareLinks = {}
    /\ shareReq = NoRequest

\* app.share_trip, POST with share_type=friends, by the logged-in user u (the
\* route is guarded by login_required only): the friend shares of the trip are
\* deleted, one row per selected friend is added, and the commit stores both.
ShareWithFriends(u, selected_friends, can_edit_friends) ==
    /\ nextShareId + Len(selected_friends) - 1 <= MaxShares
    /\ LET kept == { s \in shares : ~(s.trip_id = SharedTrip /\ s.shared_with_user_id # None) }
           added == { NewTripShare(nextShareId + i - 1, SharedTrip, selected_friends[i], 0,
                                   \E j \in DOMAIN can_edit_friends :
                                       can_edit_friends[j] = selected_friends[i],
                                   0) : i \in DOMAIN selected_friends }
       IN shares' = kept \cup added
    /\ nextShareId' = nextShareId + Len(selected_friends)
    /\ shareReq' = [kind |-> "friends", user |-> u, token |-> 0, status |-> 302, at |-> clock]
    /\ UNCHANGED shareLinks

\* app.share_trip, POST with share_type=external, by the logged-in user u: a
\* fresh token, expires_at None for an empty expires_days and utcnow() plus the
\* days otherwise, one row, the commit.
ShareExternal(u, expires_days, can_edit) ==
    /\ nextShareId <= MaxShares
    /\ LET token == nextShareId
           expires_at == IF expires_days = "" THEN 0 ELSE clock + int(expires_days)
       IN /\ shares' = shares \cup
                 {NewTripShare(nextShareId, SharedTrip, None, token, can_edit, expires_at)}
          /\ shareLinks' = shareLinks \cup {[token |-> token, expires_at |-> expires_at]}
          /\ shareReq' = [kind |-> "external", user |-> u, token |-> token, status |-> 302,
                          at |-> clock]
    /\ nextShareId' = nextShareId + 1

\* A share that never counts as expired.
NeverExpired(share, now) == FALSE

\* share.expires_at and share.expires_at < datetime.utcnow()
IsExpired(share, now) == share.expires_at # 0 /\ share.expires_at < now

\* app.view_shared_trip(token), by anybody: 404 without a row of that token,
\* 410 for a row that is expired, the trip otherwise.
ViewSharedTrip(token) ==
    /\ LET found == { s \in shares : s.share_token = token }
           status == IF found = {} THEN 404
                     ELSE IF IsExpired(CHOOSE s \in found : TRUE, clock) THEN 410
                     ELSE 200
       IN shareReq' = [kind |-> "view", user |-> None, token |-> token, status |-> status,
                       at |-> clock]
    /\ UNCHANGED <<shares, nextShareId, shareLinks>>

\* The filter of the cleanup job's query: expires_at < now and expires_at is
\* not None.
CleanupFilter(s, now) == s.expires_at < now /\ s.expires_at # 0

\* scheduler.cleanup_expired_shares_job: the rows the query returns are deleted.
CleanupExpiredSharesJob ==
    /\ shares' = { s \in shares : ~CleanupFilter(s, clock) }
    /\ UNCHANGED <<nextShareId, shareLinks, shareReq>>

\* ------------------------------------------------- scans of one mailbox
rescanVars == <<mailbox, rsPos, rsScan, rsFailed>>

\* The process that scans the mailbox.
Scanner == "sched"

\* The position after pos in the list the scan walks, 0 once the list is done.
NextMessage(pos) == IF pos < Len(mailbox) THEN pos + 1 ELSE 0

\* scan_for_flights starts: the list call returns the same most recent messages
\* as in every scan (the query does not depend on last_scan).
RescanStart ==
    /\ rsPos = 0
    /\ rsScan < MaxScans
    /\ rsScan' = rsScan + 1
    /\ rsPos' = NextMessage(0)
    /\ UNCHANGED <<mailbox, rsFailed>>

\* The loop body reaches create_trip_from_flight with the candidate parsed from
\* the message: the lookup; on a hit the loop goes on to the next message.
RescanLookup ==
    /\ rsPos \in DOMAIN mailbox
    /\ Lookup(Scanner, mailbox[rsPos])
    /\ rsPos' = IF ExistingFlight(flights, mailbox[rsPos].confirmation_number) # {}
                THEN NextMessage(rsPos) ELSE rsPos
    /\ UNCHANGED <<mailbox, rsScan, rsFailed>>

\* The flush of the Trip for the message.
RescanFlush ==
    /\ rsPos \in DOMAIN mailbox
    /\ FlushTrip(Scanner)
    /\ UNCHANGED rescanVars

\* The commit of the Trip and the Flight; the loop goes on.
RescanCommit ==
    /\ rsPos \in DOMAIN mailbox
    /\ CommitFlight(Scanner)
    /\ rsPos' = NextMessage(rsPos)
    /\ UNCHANGED <<mailbox, rsScan, rsFailed>>

\* A write for the message raised and was rolled back; the loop goes on.
RescanWriteFails ==
    /\ rsPos \in DOMAIN mailbox
    /\ WriteFails(Scanner)
    /\ rsFailed' = rsFailed \cup {rsPos}
    /\ rsPos' = NextMessage(rsPos)
    /\ UNCHANGED <<mailbox, rsScan>>

\* A mailbox of one to MaxMessages messages, each parsed to a candidate, not
\* scanned so far.
RescanInit ==
    /\ mailbox \in UNION { [1..n -> Candidates] : n \in 1..MaxMessages }
    /\ rsPos = 0
    /\ rsScan = 0
    /\ rsFailed = {}

\* The machine at rest: an empty mailbox.
RescanFixed ==
    /\ mailbox = <<>>
    /\ rsPos = 0
    /\ rsScan = 0
    /\ rsFailed = {}

\* The variables of the three machines above.
moreVars == <<statusVars, shareVars, rescanVars>>

\* Those machines at rest.
MoreInit == StatusFixed /\ ShareInit /\ RescanFixed

\* ------------------------------------------------ preferences_settings
\* app.preferences_settings (POST) by the owner of the scanned account:
\* settings.default_trip_visibility = TripVisibility[...] and commit.
PreferencesSettings(v) ==
    /\ acct' = [acct EXCEPT ![CkptAccount].default_trip_visibility = v]
    /\ UNCHANGED scanLog

\* What the machines above leave alone.
restVars == <<ckptVars, syncVars, parseVars, hangVars, discVars, moreVars>>

\* The variables of the account list besides the accounts themselves.
scanRun == <<scanLog, scanPc, firing, scanQueue, scanned, firstAnswer, listCalls,
             refreshCalls, fetched, scanDid>>

\* The same without the log.
scanRest == <<scanPc, firing, scanQueue, scanned, firstAnswer, listCalls,
              refreshCalls, fetched, scanDid>>

\* The other machines at rest.
RestInit == CkptInit /\ SyncInit /\ ParseFixed /\ HangInit /\ DiscInit /\ MoreInit

vars == <<storeVars, schedVars, scanVars, restVars>>

Init == StoreInit /\ SchedInit /\ ScanFixed /\ RestInit

ScanInit ==
    /\ acct \in [Accounts -> AccountStates]
    /\ ScanIdle
    /\ StoreInit
    /\ SchedInit
    /\ RestInit

MatNext ==
    \/ \E p \in Procs, c \in Candidates : Lookup(p, c) /\ UNCHANGED <<schedVars, scanVars, restVars>>
    \/ \E p \in Procs : FlushTrip(p) /\ UNCHANGED <<schedVars, scanVars, restVars>>
    \/ \E p \in Procs : CommitFlight(p) /\ UNCHANGED <<schedVars, scanVars, restVars>>
    \/ \E p \in Procs : WriteFails(p) /\ UNCHANGED <<schedVars, scanVars, restVars>>

VisNext ==
    \/ MatNext
    \/ \E v \in TripVisibility :
          PreferencesSettings(v) /\ UNCHANGED <<storeVars, schedVars, scanRest, restVars>>

Next ==
    \/ MatNext
    \/ \E t \in trips, c \in Candidates : AddFlight(t, c) /\ UNCHANGED <<schedVars, scanVars, restVars>>
    \/ \E t \in trips : DeleteTrip(t) /\ UNCHANGED <<schedVars, scanVars, restVars>>

SchedNext ==
    \/ \E j \in Jobs : Fire(j) /\ UNCHANGED <<storeVars, scanVars, restVars>>
    \/ SyncNextTrip /\ UNCHANGED <<storeVars, scanVars, restVars>>
    \/ \E j \in Jobs : JobReturns(j) /\ UNCHANGED <<storeVars, scanVars, restVars>>
    \/ \E j \in Jobs : BodyRaises(j) /\ UNCHANGED <<storeVars, scanVars, restVars>>
    \/ CliScanStart /\ UNCHANGED <<storeVars, scanVars, restVars>>
    \/ CliScanEnd /\ UNCHANGED <<storeVars, scanVars, restVars>>
    \/ \E t \in SyncTrips : ManualSyncStart(t) /\ UNCHANGED <<storeVars, scanVars, restVars>>
    \/ \E t \in SyncTrips : ManualSyncEnd(t) /\ UNCHANGED <<storeVars, scanVars, restVars>>

ScanNext ==
    \/ FiringStart /\ UNCHANGED <<storeVars, schedVars, restVars>>
    \/ SkipAccount /\ UNCHANGED <<storeVars, schedVars, restVars>>
    \/ \E net \in {"200", "raised"}, m \in 0..MaxMessages, n \in {0, 1}, lw \in {"ok", "fails"}, hw \in {"ok", "fails"} :
          n <= m /\ ScanAccount(net, m, n, lw, hw) /\ UNCHANGED <<storeVars, schedVars, restVars>>
    \/ FiringEnd /\ UNCHANGED <<storeVars, schedVars, restVars>>
    \/ FiringOver /\ UNCHANGED <<storeVars, schedVars, restVars>>

CkptNext ==
    \/ \E p \in Procs, answer \in {"200", "401", "raised"}, n \in 0..MaxMessages :
          ListMessages(p, answer, n) /\ UNCHANGED <<storeVars, schedVars, scanRun, syncVars, parseVars, hangVars, discVars, moreVars>>
    \/ \E p \in Procs, contained \in BOOLEAN :
          MessageDone(p, contained) /\ UNCHANGED <<storeVars, schedVars, scanRun, syncVars, parseVars, hangVars, discVars, moreVars>>
    \/ \E p \in Procs : MessageRaises(p) /\ UNCHANGED <<storeVars, schedVars, scanRun, syncVars, parseVars, hangVars, discVars, moreVars>>
    \/ \E p \in Procs : StampLastScan(p) /\ UNCHANGED <<storeVars, schedVars, scanRun, syncVars, parseVars, hangVars, discVars, moreVars>>
    \/ \E p \in Procs, ok \in BOOLEAN :
          CommitLastScan(p, ok) /\ UNCHANGED <<storeVars, schedVars, scanRun, syncVars, parseVars, hangVars, discVars, moreVars>>
    \/ Tick /\ UNCHANGED <<storeVars, schedVars, scanRun, syncVars, parseVars, hangVars, discVars, moreVars>>

SyncNext ==
    \/ SyncJobStart /\ UNCHANGED <<storeVars, schedVars, scanVars, ckptVars, parseVars, hangVars, discVars, moreVars>>
    \/ SyncRefused /\ UNCHANGED <<storeVars, schedVars, scanVars, ckptVars, parseVars, hangVars, discVars, moreVars>>
    \/ \E p \in Syncers, t \in SyncTrips :
          \E resp \in fetch_foursquare_checkins(CheckinWindow(t)) :
          SyncFetch(p, t, resp) /\ UNCHANGED <<storeVars, schedVars, scanVars, ckptVars, parseVars, hangVars, discVars, moreVars>>
    \/ \E p \in Syncers : SyncItem(p) /\ UNCHANGED <<storeVars, schedVars, scanVars, ckptVars, parseVars, hangVars, discVars, moreVars>>
    \/ \E p \in Syncers : SyncCommit(p) /\ UNCHANGED <<storeVars, schedVars, scanVars, ckptVars, parseVars, hangVars, discVars, moreVars>>

ParseNext ==
    \/ \E t \in 1..MaxClock :
          ParseFlightEmail(t) /\ UNCHANGED <<storeVars, schedVars, scanVars, ckptRun, syncVars, hangVars, discVars, moreVars>>
    \/ \E info \in returned :
          CreateFromParsed("sched", info) /\ UNCHANGED <<schedVars, scanVars, restVars>>
    \/ FlushTrip("sched") /\ UNCHANGED <<schedVars, scanVars, restVars>>
    \/ CommitFlight("sched") /\ UNCHANGED <<schedVars, scanVars, restVars>>
    \/ WriteFails("sched") /\ UNCHANGED <<schedVars, scanVars, restVars>>

\* One email, from every sender and content.
ParseSpecInit == StoreInit /\ SchedInit /\ ScanFixed /\ CkptInit /\ SyncInit /\ HangInit /\ DiscInit /\ MoreInit /\ ParseInit

\* What the status job leaves alone.
statusRest == <<storeVars, schedVars, scanVars, ckptRun, syncVars, parseVars, hangVars,
                discVars, shareVars, rescanVars>>

StatusNext ==
    \/ \E configured \in BOOLEAN, answer \in StatusAnswers \cup {NoStatus}, commitOk \in BOOLEAN :
          /\ configured = (stFlight.airline = "UNITED")
          /\ UpdateFlightStatusesJob(configured, answer, commitOk)
          /\ UNCHANGED <<clock, statusRest>>
    \/ Tick /\ UNCHANGED <<storeVars, schedVars, scanRun, syncVars, parseVars, hangVars, discVars, moreVars>>

\* What the share requests leave alone.
shareRest == <<storeVars, schedVars, scanVars, ckptRun, syncVars, parseVars, hangVars,
               discVars, statusVars, rescanVars>>

ShareNext ==
    \/ \E u \in Members, selected_friends \in {<<>>, <<"u2">>}, can_edit_friends \in {<<>>, <<"u2">>} :
          ShareWithFriends(u, selected_friends, can_edit_friends) /\ UNCHANGED <<clock, shareRest>>
    \/ \E u \in Members, expires_days \in ExpiresDays, can_edit \in BOOLEAN :
          ShareExternal(u, expires_days, can_edit) /\ UNCHANGED <<clock, shareRest>>
    \/ \E token \in 1..MaxShares : ViewSharedTrip(token) /\ UNCHANGED <<clock, shareRest>>
    \/ CleanupExpiredSharesJob /\ UNCHANGED <<clock, shareRest>>
    \/ Tick /\ UNCHANGED <<storeVars, schedVars, scanRun, syncVars, parseVars, hangVars, discVars, moreVars>>

\* What the scans of the mailbox leave alone.
rescanRest == <<schedVars, scanVars, ckptVars, syncVars, parseVars, hangVars, discVars,
                statusVars, shareVars>>

RescanNext ==
    \/ RescanStart /\ UNCHANGED <<storeVars, rescanRest>>
    \/ RescanLookup /\ UNCHANGED rescanRest
    \/ RescanFlush /\ UNCHANGED rescanRest
    \/ RescanCommit /\ UNCHANGED rescanRest
    \/ RescanWriteFails /\ UNCHANGED rescanRest

\* Every mailbox of one to MaxMessages candidates.
RescanSpecInit ==
    StoreInit /\ SchedInit /\ ScanFixed /\ CkptInit /\ SyncInit /\ ParseFixed /\ HangInit /\ DiscInit /\ StatusFixed /\ ShareInit /\ RescanInit

\* One Flight of every status, airline and departure time.
StatusSpecInit ==
    StoreInit /\ SchedInit /\ ScanFixed /\ CkptInit /\ SyncInit /\ ParseFixed /\ HangInit /\ DiscInit /\ ShareInit /\ RescanFixed /\ StatusInit

\* What the provider calls leave alone.
hangRest == <<storeVars, scanVars, ckptVars, syncVars, parseVars, discVars, moreVars>>

HangNext ==
    \/ \E j \in Jobs : Fire(j) /\ UNCHANGED <<hangVars, hangRest>>
    \/ \E j \in Jobs : CallProvider(j) /\ UNCHANGED <<schedVars, hangRest>>
    \/ \E j \in Jobs : ProviderAnswers(j) /\ UNCHANGED <<schedVars, hangRest>>
    \/ \E j \in Jobs : RequestTimesOut(j) /\ UNCHANGED <<schedVars, hangRest>>
    \/ \E j \in Jobs : JobEnds(j) /\ UNCHANGED hangRest

\* The scheduler's worker runs a submitted job on, and a timeout that was set
\* expires; nothing obliges a provider to answer.
HangFairness ==
    \A j \in Jobs :
        /\ WF_vars(JobEnds(j) /\ UNCHANGED hangRest)
        /\ WF_vars(RequestTimesOut(j) /\ UNCHANGED <<schedVars, hangRest>>)

\* What the disconnect machine leaves alone.
discRest == <<storeVars, schedVars, acct, scanRest, ckptRun, clock, syncVars, parseVars, hangVars,
              moreVars>>

DiscNext ==
    \/ \E a \in Accounts : LogScan(a) /\ UNCHANGED discRest
    \/ \E a \in Accounts, u \in Users, fk \in BOOLEAN : Disconnect(a, u, fk) /\ UNCHANGED discRest

\* The store under materializations, add_flight and delete_trip.
Spec == Init /\ [][Next]_vars

\* The store under materializations only.
MatSpec == Init /\ [][MatNext]_vars

\* Materializations while the owner changes the preferences.
VisSpec == Init /\ [][VisNext]_vars

\* The scheduler's jobs and the on-demand triggers.
SchedSpec == Init /\ [][SchedNext]_vars

\* Firings of scan_all_email_accounts, from every configuration of the accounts.
ScanSpec == ScanInit /\ [][ScanNext]_vars

\* scan_for_flights of one account by two processes, with the wall clock.
CkptSpec == Init /\ [][CkptNext]_vars

\* sync_trip_checkins by the scheduled sync and a manual sync.
SyncSpec == Init /\ [][SyncNext]_vars

\* parse_flight_email on one email and the materialization of its candidate.
ParseSpec == ParseSpecInit /\ [][ParseNext]_vars

\* The jobs with their provider calls, run fairly.
HangSpec == Init /\ [][HangNext]_vars /\ HangFairness

\* The flight status job on one Flight, with the wall clock.
StatusSpec == StatusSpecInit /\ [][StatusNext]_vars

ShareSpec == Init /\ [][ShareNext]_vars

RescanSpec == RescanSpecInit /\ [][RescanNext]_vars

\* Disconnect requests against the accounts and their scan log.
DiscSpec == Init /\ [][DiscNext]_vars

\* ------------------------------------------------- claims about the store
FlightsWithCode(k) == { f \in flights : f.confirmation_number = k }

CreatedCall(k) == [confirmation_number |-> k, outcome |-> "created"]

\* No other scanner has entered create_trip_from_flight: p's calls are in sequence.
Solo(p) == \A q \in Procs \ {p} : pc[q] = "idle" /\ last[q] = NoCall

\* C1: with one scanner calling in sequence, a call that commits adds exactly one
\* Trip and one Flight, and the scanner's next call with the same non-empty
\* confirmation code never goes on to the writes: it returns None as "Flight
\* already exists", writes nothing, and leaves exactly one Flight with that code.
C1_SecondCallSkipped ==
    [][ \A p \in Procs :
          /\ ( /\ Solo(p)
               /\ pc[p] = "flushed"
               /\ last'[p] = CreatedCall(cand[p].confirmation_number) )
             => /\ Cardinality(trips') = Cardinality(trips) + 1
                /\ Cardinality(flights') = Cardinality(flights) + 1
          /\ \A k \in Codes :
               ( /\ Solo(p)
                 /\ pc[p] = "idle"
                 /\ last[p] = CreatedCall(k) )
               => /\ ~(pc'[p] = "create" /\ cand'[p].confirmation_number = k)
                  /\ (last'[p].confirmation_number = k /\ last'[p] # last[p])
                     => /\ last'[p].outcome = "exists"
                        /\ pc'[p] = "idle"
                        /\ trips' = trips
                        /\ flights' = flights
                        /\ Cardinality(FlightsWithCode(k)') = 1
      ]_vars

\* C1 witness: a lone scanner created AB12CD and its next call was skipped.
C1_Witness ==
    \E p \in Procs :
        /\ Solo(p)
        /\ pc[p] = "idle"
        /\ last[p] = [confirmation_number |-> "AB12CD", outcome |-> "exists"]
        /\ Cardinality(FlightsWithCode("AB12CD")) = 1
        /\ Cardinality(trips) = 1

\* C2: at most one Flight row per non-empty confirmation code, in every state of
\* the store reached by materializations and add_flight requests.
C2_OneFlightPerCode ==
    \A k \in Codes : Cardinality(FlightsWithCode(k)) <= 1

\* C3: when two scanners materialize the same code concurrently (under MatSpec two
\* scanners both return "created" for one code only if both looked up before
\* either committed), one creates and the other is a duplicate skip, and the
\* store holds exactly one Flight for the code.
C3_RaceOneCreates ==
    \A k \in Codes : \A p \in Procs : \A q \in Procs \ {p} :
        ( /\ last[p] = CreatedCall(k)
          /\ last[q].confirmation_number = k
          /\ last[q].outcome # "none" )
        => /\ last[q].outcome \in {"exists", "error"}
           /\ Cardinality(FlightsWithCode(k)) = 1

\* C4: materialization is atomic: every committed auto-detected Trip has its
\* Flight, and a Trip that is only flushed (its transaction still open, or rolled
\* back after a failed write) is not in the store.
C4_TripAndFlightTogether ==
    /\ \A t \in trips : t.auto_detected => \E f \in flights : f.trip_id = t.id
    /\ \A p \in Procs : pending[p] \cap trips = {}

\* C4 witness: two Trips were flushed and one Flight written: one materialization
\* committed, the other failed after its flush and left nothing behind.
C4_Witness ==
    /\ \E p \in Procs : pc[p] = "idle" /\ last[p].outcome = "error"
    /\ \A p \in Procs : pc[p] = "idle"
    /\ nextTripId = 3
    /\ nextFlightId = 2
    /\ Cardinality(trips) = 1
    /\ Cardinality(flights) = 1

\* --------------------------------------------- claims about the scheduler
\* C5: at most one execution of each of the four jobs is running at any time (a
\* trigger that fires while the job is running is skipped).
C5_OneInstancePerJob ==
    \A j \in Jobs : running[j] <= 1

\* C5 witness: a job is running and its latest trigger was skipped.
C5_Witness ==
    \E j \in Jobs : running[j] = 1 /\ lastFire[j] = "skipped"

\* C6: the on-demand triggers do not overlap the scheduled firing of the same
\* job: the scan_emails command is not inside scan_all_email_accounts while the
\* scheduled scan runs, and no manual sync is inside sync_trip_checkins for the
\* trip the scheduled sync is processing.
C6_OnDemandNeverOverlaps ==
    /\ ~(running["scan_emails"] > 0 /\ cliScan = "running")
    /\ \A t \in SyncTrips :
          ~(running["sync_foursquare"] > 0 /\ syncCurrent = t /\ manualSync[t] = "running")

Eligible(a) ==
    /\ acct[a].is_active
    /\ acct[a].settings = "present"
    /\ acct[a].email_integration_enabled
    /\ acct[a].auto_scan_emails
    /\ acct[a].email_type \in {"gmail", "outlook"}

\* The entries the current firing wrote for account a.
FiringEntries(a) ==
    { i \in 1..Len(scanLog) :
        scanLog[i].email_account_id = a /\ scanLog[i].scan_time = firing }

\* C8: when a firing is over, however the processing of one account went (the
\* provider fetch, the reading of the owner's settings, the writing of the log
\* entry), every eligible account was scanned and has its entry in the log.
C8_EveryEligibleAccountScanned ==
    scanPc \in {"done", "aborted"}
    => \A a \in Accounts : Eligible(a) => (a \in scanned /\ FiringEntries(a) # {})

\* C9: an account whose first list call was answered 401 and whose refresh token
\* the provider accepts has, when the firing is over, one refresh exchange, two
\* list calls and its messages fetched.
C9_RefreshOnceAndRetry ==
    \A a \in Accounts :
        ( /\ scanPc \in {"done", "aborted"}
          /\ firstAnswer[a] = "401"
          /\ acct[a].refresh_token = "valid" )
        => (refreshCalls[a] = 1 /\ listCalls[a] = 2 /\ fetched[a])

\* C10: an account whose token was rejected and whose refresh fails is inactive
\* when the firing is over, and the firing wrote one entry for it, an error entry.
C10_FailedRefreshDeactivates ==
    \A a \in Accounts :
        ( /\ scanPc = "done"
          /\ firstAnswer[a] = "401"
          /\ acct[a].refresh_token = "revoked" )
        => /\ ~acct[a].is_active
           /\ Cardinality(FiringEntries(a)) = 1
           /\ \A i \in FiringEntries(a) : scanLog[i].errors # None

\* --------------------------------------- claims about the scan checkpoint
\* C11: no step of any interleaving of scans of an account stores a last_scan
\* earlier than the one already stored.
C11_LastScanNeverGoesBack ==
    [][ acct'[CkptAccount].last_scan >= acct[CkptAccount].last_scan ]_vars

\* C12: a call of scan_for_flights that fetched its list and is over after one
\* of the messages failed has committed last_scan.
C12_PartialSuccessAdvances ==
    \A p \in Procs :
        (sfPc[p] = "idle" /\ sfFailure[p] \in {"contained", "escaped"}) => sfWrote[p]

\* ---------------------------------------------- claims about the check-ins
WithCheckinId(rows, i) == { c \in rows : c.foursquare_checkin_id = i }

\* C13: after every step of every interleaving of scheduled and manual syncs the
\* store holds at most one CheckIn per provider check-in id, and every CheckIn
\* stored before the step is stored unchanged after it.
C13_CheckinsUniqueAndAppendOnly ==
    [][ /\ \A i \in CheckinIds : Cardinality(WithCheckinId(checkins', i)) <= 1
        /\ checkins \subseteq checkins' ]_vars

\* C13 witness: both syncers are back; one lost the race for an id to the unique
\* index, the other skipped an id whose stored shout differs from the provider's.
C13_Witness ==
    \E p \in Syncers : \E q \in Syncers \ {p} :
        /\ syPc[p] = "idle" /\ syPc[q] = "idle"
        /\ syResult[p] = "raised"
        /\ syResult[q] = "returned"
        /\ "c1" \in sySkipped[q]
        /\ \E c \in checkins : c.foursquare_checkin_id = "c1" /\ c.shout = "v1"
        /\ nextCheckinId = 3

\* ------------------------------------------------ claims about extraction
\* The content "UA1234 Confirmation: AB12CD JFK LAX".
C14_Words ==
    << Word(<<"U", "A", "1", "2", "3", "4">>, " "),
       Word(<<"C", "o", "n", "f", "i", "r", "m", "a", "t", "i", "o", "n">>, ": "),
       Word(<<"A", "B", "1", "2", "C", "D">>, " "),
       Word(<<"J", "F", "K">>, " "),
       Word(<<"L", "A", "X">>, " ") >>

\* C14: for the email from united.com whose content is UA1234, Confirmation:
\* AB12CD, JFK, LAX in that order, every call of parse_flight_email returns
\* flight_number UA1234, confirmation AB12CD, departure JFK and arrival LAX, and
\* once its materialization has committed the store holds one Trip, titled "JFK
\* to LAX", and one Flight, with confirmation code AB12CD.
C14_ExampleExtraction ==
    (email.from_email = "united.com" /\ email.words = C14_Words)
    => /\ \A info \in returned :
             /\ info.flight_number = "UA1234"
             /\ info.confirmation_number = "AB12CD"
             /\ info.departure_airport = "JFK"
             /\ info.arrival_airport = "LAX"
       /\ last["sched"].outcome = "created"
          => /\ Cardinality(trips) = 1
             /\ \A t \in trips : t.title = "JFK to LAX"
             /\ Cardinality(flights) = 1
             /\ \A f \in flights : f.confirmation_number = "AB12CD"

\* C15: all the calls of parse_flight_email made for one email, at whatever
\* times and store states, return the same candidate in every field.
C15_ParseDeterministic ==
    Cardinality(returned) <= 1

\* C16: a candidate parse_flight_email returns has a flight number, a departure
\* airport and an arrival airport, and when the content yields no flight number
\* or fewer than two airports no candidate is returned.
C16_CandidateHasRequiredFields ==
    \A info \in returned :
        /\ info # NoFlightInfo
           => /\ info.flight_number # None
              /\ info.departure_airport # None
              /\ info.arrival_airport # None
        /\ ( \/ FlightNumber(email.words) = None
              \/ Len(SelectSeq(SelectSeq(email.words, IsAirportMatch), IsValidAirport)) < 2 )
           => info = NoFlightInfo

\* C16 witness: a candidate was returned with no confirmation code and no times.
C16_Witness ==
    \E info \in returned :
        /\ info # NoFlightInfo
        /\ info.flight_number = "DL42"
        /\ info.confirmation_number = None
        /\ info.departure_time = 0
        /\ info.arrival_time = 0

\* --------------------------------------------- claims about provider calls
\* C17: every firing of every job eventually finishes (Running leads to Idle),
\* even when a provider never answers.
C17_EveryFiringFinishes ==
    \A j \in Jobs : (running[j] > 0) ~> (running[j] = 0)

\* ------------------------------------------------ claims about disconnect
\* C18: once the owner's disconnect request for an account has been served, the
\* EmailAccount row no longer exists, whatever the scan log held.
C18_DisconnectDestroysAccount ==
    discAsked \cap connected = {}

\* ------------------------------------- claims about the firing's footprint
\* The three conditions under which a firing is to touch an account.
Qualifies(a) ==
    /\ acct[a].is_active
    /\ acct[a].settings = "present"
    /\ acct[a].email_integration_enabled
    /\ acct[a].auto_scan_emails

\* C19: no step of a firing touches an account that is inactive or whose owner
\* has email integration or auto-scan disabled: after the step the account's row
\* is what it was, no provider call was made for it, no messages were fetched
\* and the log holds no entry for it.
C19_OnlyQualifyingAccountsTouched ==
    [][ \A a \in Accounts :
          ~Qualifies(a)
          => /\ acct'[a] = acct[a]
             /\ listCalls'[a] = 0
             /\ ~fetched'[a]
             /\ a \notin scanned'
             /\ \A i \in 1..Len(scanLog') : scanLog'[i].email_account_id # a
      ]_vars

\* C19 witness: a firing is over that scanned one account and wrote its entry
\* and checkpoint, and passed an inactive account and one with auto-scan disabled.
C19_Witness ==
    /\ scanPc = "done"
    /\ \E a \in Accounts : ~acct[a].is_active /\ listCalls[a] = 0
    /\ \E a \in Accounts : acct[a].is_active /\ ~acct[a].auto_scan_emails /\ listCalls[a] = 0
    /\ \E a \in Accounts :
          /\ Qualifies(a)
          /\ fetched[a]
          /\ acct[a].last_scan = firing
          /\ \E i \in 1..Len(scanLog) : scanLog[i].email_account_id = a

\* --------------------------------------------- claims about duplicate skips
\* C20: a call of create_trip_from_flight that finds a Flight with the
\* candidate's confirmation code writes nothing: the step that returns "Flight
\* already exists" leaves every Trip and Flight, the id sequences and the
\* sessions as they were, whatever the candidate's other fields.
C20_DuplicateSkipWritesNothing ==
    [][ \A p \in Procs :
          (last'[p] # last[p] /\ last'[p].outcome = "exists")
          => /\ trips' = trips
             /\ flights' = flights
             /\ pending' = pending
             /\ nextTripId' = nextTripId
             /\ nextFlightId' = nextFlightId
      ]_vars

\* C20 witness: the Flight AA77 holds code AB12CD, a later call for AB12CD was
\* skipped as a duplicate, and the Flight and its Trip are as they were created.
C20_Witness ==
    \E p \in Procs :
        /\ last[p] = [confirmation_number |-> "AB12CD", outcome |-> "exists"]
        /\ \E f \in flights :
              /\ f.confirmation_number = "AB12CD"
              /\ f.flight_number = "AA77"
              /\ f.arrival_airport = "MIA"
              /\ \E t \in trips : t.id = f.trip_id /\ t.title = "ORD to MIA"
        /\ Cardinality(FlightsWithCode("AB12CD")) = 1

\* ------------------------------- claims about candidates without a code
\* C21: a call of create_trip_from_flight for a candidate with no confirmation
\* code, made while the store holds no Flight with the candidate's flight
\* number, is not skipped as a duplicate: it goes on to create the Trip.
C21_NoCodeNeverSkipped ==
    [][ \A p \in Procs : \A c \in Candidates :
          ( /\ c.confirmation_number = None
            /\ \A f \in flights : f.flight_number # c.flight_number
            /\ Lookup(p, c) )
          => pc'[p] = "create"
      ]_vars

\* ------------------------------------------- claims about trip visibility
\* C22: every Trip a materialization builds has, when it is built, the
\* visibility the account owner's settings name as default_trip_visibility,
\* whichever of the three values that is.
C22_VisibilityIsOwnersDefault ==
    [][ \A p \in Procs : \A t \in pending'[p] \ pending[p] :
          t.visibility = acct[CkptAccount].default_trip_visibility
      ]_vars

\* ------------------------------------------ claims about the scan log
\* C23: the step in which a firing scans an account appends exactly one entry,
\* for that account, to the log, whether the scan succeeded or failed, and no
\* step of a scan changes or removes an entry written before it.
C23_OneEntryPerScannedAccount ==
    [][ /\ Len(scanLog') >= Len(scanLog)
        /\ SubSeq(scanLog', 1, Len(scanLog)) = scanLog
        /\ \A a \in scanned' \ scanned :
              /\ Len(scanLog') = Len(scanLog) + 1
              /\ scanLog'[Len(scanLog')].email_account_id = a
      ]_vars

\* C24: every entry the current firing wrote for an account records what the
\* scan of that account did: emails_processed is the number of messages it
\* processed, trips_created the number of Trips it created, and errors is set
\* exactly when the scan failed (a 401, or an exception inside the fetch).
C24_EntryRecordsWhatScanDid ==
    \A a \in Accounts : \A i \in FiringEntries(a) :
        /\ scanLog[i].emails_processed = scanDid[a].emails_processed
        /\ scanLog[i].trips_created = scanDid[a].trips_created
        /\ (scanLog[i].errors # None) <=> scanDid[a].failed

\* ------------------------------------ claims about the check-in sync job
\* C25: when the loop of a firing of the check-in sync job is over and the sync
\* of the first trip failed (its commit was refused), the sync of the later trip
\* still ran to its end, so that its new check-ins are stored.
C25_LaterTripsStillSynced ==
    ( /\ syPc["job"] = "idle"
      /\ syQueue = <<>>
      /\ jobResults["t1"] = "raised" )
    => jobResults["t2"] = "returned"

\* Whether the trip's dates contain the time.
InTripDates(t, time) ==
    TripDates(t).start_date <= time /\ time <= TripDates(t).end_date

C26_ReturnedStatusIsStored ==
    (stResult.selected /\ stResult.answer # NoStatus)
    => /\ stResult.returned
       /\ stResult.updated_count = 1
       /\ stFlight.status = stResult.answer.status
       /\ stFlight.departure_gate = stResult.answer.departure_gate
       /\ stFlight.departure_terminal = stResult.answer.departure_terminal

\* ------------------------------------------------ claims about trip shares
\* The link of the token the next request asks for is past its expiry.
AskedLinkExpired(l) ==
    /\ shareReq' # shareReq
    /\ shareReq'.kind = "view"
    /\ l.token = shareReq'.token
    /\ l.expires_at # 0
    /\ l.expires_at < clock

\* Links handed out without an expiry keep their row, and a request for one is
\* answered with the trip.
NoExpiryLinksStay ==
    \A l \in shareLinks :
        l.expires_at = 0 =>
            /\ \E s \in shares' : s.share_token = l.token
            /\ (shareReq' # shareReq /\ shareReq'.kind = "view" /\ shareReq'.token = l.token)
                   => shareReq'.status = 200

\* C29, as stated: a request for a share link past its expiry is answered 410,
\* whether or not the cleanup job has deleted its row; a link without an expiry
\* is never treated as expired and never deleted.
C29_ExpiredLinkAnswers410 ==
    [][ /\ \A l \in shareLinks : AskedLinkExpired(l) => shareReq'.status = 410
        /\ NoExpiryLinksStay ]_vars

\* C29, amended: a request for a share link past its expiry is answered 410
\* while its row exists and 404 once the cleanup job has deleted the row, never
\* with the trip; a link without an expiry is never treated as expired and
\* never deleted.
C29_ExpiredLinkNeverShowsTrip ==
    [][ /\ \A l \in shareLinks :
               AskedLinkExpired(l) =>
                   shareReq'.status = IF \E s \in shares : s.share_token = l.token
                                      THEN 410 ELSE 404
        /\ NoExpiryLinksStay ]_vars

\* C29 happens: the last request asked for a link that was past its expiry and
\* whose row the cleanup job had deleted, and was answered 404, while a link
\* without an expiry older than it still has its row.
C29_Witness ==
    /\ shareReq.kind = "view"
    /\ shareReq.status = 404
    /\ \E l \in shareLinks :
           /\ l.token = shareReq.token
           /\ l.expires_at # 0
           /\ l.expires_at < shareReq.at
           /\ \A s \in shares : s.share_token # l.token
    /\ \E l \in shareLinks :
           /\ l.expires_at = 0
           /\ l.token < shareReq.token
           /\ \E s \in shares : s.share_token = l.token

\* C30: every TripShare row a request adds is added for a user who may edit the
\* trip (its owner, an administrator, or the holder of an edit share).
C30_OnlyEditorsCreateShares ==
    [][ \A s \in shares' \ shares : can_edit_trip(shareReq'.user, s.trip_id, shares) ]_vars

\* ------------------------------------------------- claims about rescans
\* C28, as stated: in a second or later scan of the same messages, no step adds
\* or changes a Trip or a Flight.
C28_RescanCreatesNothing ==
    [][ rsScan >= 2 => (trips' = trips /\ flights' = flights) ]_vars

\* C28, amended: in a second or later scan of the same messages, a step adds a
\* Trip or a Flight only for a message whose materialization failed on a write
\* and was rolled back in an earlier scan; for every other message, with or
\* without a confirmation code, the scan changes nothing.
C28_RescanCreatesOnlyWhatFailed ==
    [][ (rsScan >= 2 /\ (trips' # trips \/ flights' # flights)) => rsPos \in rsFailed ]_vars

\* C28 happens: the second scan of a mailbox with a message without a code and
\* a message with one is over, no write has failed, and both trips of the first
\* scan are the only ones.
C28_Witness ==
    /\ rsScan = 2
    /\ rsPos = 0
    /\ rsFailed = {}
    /\ \E i, j \in DOMAIN mailbox :
           /\ mailbox[i].confirmation_number = None
           /\ mailbox[j].confirmation_number # None
    /\ Cardinality(trips) = 2
    /\ Cardinality(flights) = 2

====
